---- MODULE Spec2Model ----
(***************************************************************************)
(* Model of lib/mock.py (chroot initialisation under a lock file) and      *)
(* lib/repository.py (git / svn working copies).                           *)
(***************************************************************************)
EXTENDS Integers, Sequences, FiniteSets, TLC

VARIABLES
    \* ---- lib/mock.py ----
    procOf,      \* caller -> operating-system process the caller runs in
    pc,          \* caller -> position inside Mock.initialize
    fdOpen,      \* caller -> its lock_file object is still open
    lockOwner,   \* process owning the lockf() record lock on LOCK_FILE_PATH
    \* ---- lib/repository.py, git ----
    dir,         \* what is at repo_path: "absent", "invalid" or "valid"
    remotes,     \* self.remotes: sequence of [name, url], in enumeration order
    refdb,       \* name accepted by self.commit() -> commit, or NoCommit
    head,        \* commit HEAD refers to
    tree,        \* commit the index and the working tree were last reset to
    requested,   \* remote URL of the most recent successful get_git_repository
    \* ---- lib/repository.py, svn ----
    svnDir,      \* repo_path of the svn working copy exists
    \* ---- lib/repository.py, archive ----
    submodules,  \* self.submodules: sequence of [name, path], in enumeration order
    files,       \* build_dir: file path -> the prefixes of the tar members in it
    \* ---- both ----
    last         \* the most recent call: operation, arguments, outcome

mockVars == <<procOf, pc, fdOpen, lockOwner>>
gitVars == <<dir, remotes, refdb, head, tree, requested>>
svnVars == <<svnDir>>
archVars == <<submodules, files>>
vars == <<procOf, pc, fdOpen, lockOwner, dir, remotes, refdb, head, tree,
          requested, svnDir, submodules, files, last>>

(***************************************************************************)
(* lib/mock.py                                                             *)
(***************************************************************************)
NumCallers == 3
NumProcs == 2
Callers == 1..NumCallers
Procs == 1..NumProcs
NoProc == 0

\* Positions of one caller in initialize().
MockPcs == {"idle", "opened", "locked", "scrubbing", "scrubbed", "initing",
            "inited", "unlocked", "done", "raised"}

\* The caller is between the start of '--scrub all' and the end of '--init'.
InCommands(c) == pc[c] \in {"scrubbing", "scrubbed", "initing"}

\* The caller is executing one of its two external commands.
RunsCommand(c) == pc[c] \in {"scrubbing", "initing"}

\* A lockf() lock is a POSIX record lock: it belongs to the process, it never
\* conflicts with a lock of the same process, and it is dropped when the
\* process unlocks the region or closes any descriptor of the file.
CanLock(c) == lockOwner = NoProc \/ lockOwner = procOf[c]

DropLock(c) == IF lockOwner = procOf[c] THEN NoProc ELSE lockOwner

\* The caller's process owns the lock through a file the caller still has open.
HoldsLock(c) ==
    /\ pc[c] \notin {"idle", "opened"}
    /\ fdOpen[c]
    /\ lockOwner = procOf[c]

MockInit ==
    /\ procOf \in [Callers -> Procs]
    /\ pc = [c \in Callers |-> "idle"]
    /\ fdOpen = [c \in Callers |-> FALSE]
    /\ lockOwner = NoProc

\* lock_file = open(LOCK_FILE_PATH, "w")
OpenLockFile(c) ==
    /\ pc[c] = "idle"
    /\ pc' = [pc EXCEPT ![c] = "opened"]
    /\ fdOpen' = [fdOpen EXCEPT ![c] = TRUE]
    /\ UNCHANGED <<procOf, lockOwner>>
    /\ UNCHANGED <<dir, remotes, refdb, head, tree, requested, svnDir, last>>
    /\ UNCHANGED <<submodules, files>>

\* fcntl.lockf(lock_file, fcntl.LOCK_EX): blocks while another process owns it.
AcquireLock(c) ==
    /\ pc[c] = "opened"
    /\ CanLock(c)
    /\ lockOwner' = procOf[c]
    /\ pc' = [pc EXCEPT ![c] = "locked"]
    /\ UNCHANGED <<procOf, fdOpen>>
    /\ UNCHANGED <<dir, remotes, refdb, head, tree, requested, svnDir, last>>
    /\ UNCHANGED <<submodules, files>>

\* self.run_command("--scrub all") starts.
StartScrub(c) ==
    /\ pc[c] = "locked"
    /\ pc' = [pc EXCEPT ![c] = "scrubbing"]
    /\ UNCHANGED <<procOf, fdOpen, lockOwner>>
    /\ UNCHANGED <<dir, remotes, refdb, head, tree, requested, svnDir, last>>
    /\ UNCHANGED <<submodules, files>>

\* '--scrub all' ends: it returns, or utils.run_command raises.
EndScrub(c) ==
    /\ pc[c] = "scrubbing"
    /\ \E ok \in BOOLEAN :
          pc' = [pc EXCEPT ![c] = IF ok THEN "scrubbed" ELSE "raised"]
    /\ UNCHANGED <<procOf, fdOpen, lockOwner>>
    /\ UNCHANGED <<dir, remotes, refdb, head, tree, requested, svnDir, last>>
    /\ UNCHANGED <<submodules, files>>

\* self.run_command("--init") starts.
StartInit(c) ==
    /\ pc[c] = "scrubbed"
    /\ pc' = [pc EXCEPT ![c] = "initing"]
    /\ UNCHANGED <<procOf, fdOpen, lockOwner>>
    /\ UNCHANGED <<dir, remotes, refdb, head, tree, requested, svnDir, last>>
    /\ UNCHANGED <<submodules, files>>

\* '--init' ends: it returns, or utils.run_command raises.
EndInit(c) ==
    /\ pc[c] = "initing"
    /\ \E ok \in BOOLEAN :
          pc' = [pc EXCEPT ![c] = IF ok THEN "inited" ELSE "raised"]
    /\ UNCHANGED <<procOf, fdOpen, lockOwner>>
    /\ UNCHANGED <<dir, remotes, refdb, head, tree, requested, svnDir, last>>
    /\ UNCHANGED <<submodules, files>>

\* fcntl.lockf(lock_file, fcntl.LOCK_UN)
Unlock(c) ==
    /\ pc[c] = "inited"
    /\ lockOwner' = DropLock(c)
    /\ pc' = [pc EXCEPT ![c] = "unlocked"]
    /\ UNCHANGED <<procOf, fdOpen>>
    /\ UNCHANGED <<dir, remotes, refdb, head, tree, requested, svnDir, last>>
    /\ UNCHANGED <<submodules, files>>

\* initialize() returns: the local lock_file loses its last reference and is
\* closed, which drops every lock the process has on the file.
Return(c) ==
    /\ pc[c] = "unlocked"
    /\ fdOpen' = [fdOpen EXCEPT ![c] = FALSE]
    /\ lockOwner' = DropLock(c)
    /\ pc' = [pc EXCEPT ![c] = "done"]
    /\ UNCHANGED procOf
    /\ UNCHANGED <<dir, remotes, refdb, head, tree, requested, svnDir, last>>
    /\ UNCHANGED <<submodules, files>>

\* After an exception left initialize(), lock_file lives as long as the
\* traceback refers to the frame; it is closed at some later, unspecified time.
FinalizeLockFile(c) ==
    /\ pc[c] = "raised"
    /\ fdOpen[c]
    /\ fdOpen' = [fdOpen EXCEPT ![c] = FALSE]
    /\ lockOwner' = DropLock(c)
    /\ UNCHANGED <<procOf, pc>>
    /\ UNCHANGED <<dir, remotes, refdb, head, tree, requested, svnDir, last>>
    /\ UNCHANGED <<submodules, files>>

initialize(c) ==
    \/ OpenLockFile(c)
    \/ AcquireLock(c)
    \/ StartScrub(c)
    \/ EndScrub(c)
    \/ StartInit(c)
    \/ EndInit(c)
    \/ Unlock(c)
    \/ Return(c)

MockNext ==
    \/ \E c \in Callers : initialize(c)
    \/ \E c \in Callers : FinalizeLockFile(c)


MockTypeOK ==
    /\ procOf \in [Callers -> Procs]
    /\ pc \in [Callers -> MockPcs]
    /\ fdOpen \in [Callers -> BOOLEAN]
    /\ lockOwner \in Procs \cup {NoProc}

\* C1: no caller runs '--scrub all' or '--init' while another caller is
\* between the start of its '--scrub all' and the end of its '--init'.
C1_NoOverlappingCommands ==
    \A c \in Callers : \A d \in Callers \ {c} :
        ~(RunsCommand(c) /\ InCommands(d))

\* C6: a caller whose initialize() has ended, normally or by an exception of
\* '--scrub all' or '--init', no longer holds the lock.
C6_LockReleasedWhenInitializeEnds ==
    \A c \in Callers : pc[c] \in {"done", "raised"} => ~HoldsLock(c)

(***************************************************************************)
(* lib/repository.py: names, remotes and references                        *)
(***************************************************************************)
MAIN_REMOTE_NAME == "origin"
\* A push remote that takes the name of the main remote.
PUSH_AS_MAIN_REMOTE == "origin"

REPO_REMOTE_NAME == "push-remote"
REPO_PATH == "parent_dir/name"

NumUrls == 2
NumCommits == 2
MaxRemotes == 3
Urls == 1..NumUrls
Commits == 1..NumCommits
NoCommit == 0
NoUrl == 0
MaxRev == 2
Revisions == 1..MaxRev

RemoteNames == {"origin", "push-remote", "upstream"}
Refs == {"master", "topic"}
Branches == {"master"}

\* os.path.join(remote.name, ref_name), for a ref_name not starting with "/".
Join(a, b) == a \o "/" \o b

RefNames == {Join(r, f) : r \in RemoteNames, f \in Refs} \cup Refs
NoRefs == [n \in RefNames |-> NoCommit]

Remote == [name : RemoteNames, url : Urls]

\* Remote lists a repository configuration can hold: names are unique.
RemoteLists ==
    {rs \in UNION {[1..n -> Remote] : n \in 0..MaxRemotes} :
        \A i \in DOMAIN rs : \A j \in DOMAIN rs : rs[i].name = rs[j].name => i = j}

\* The record every operation leaves in `last`.
Op(op, ref, url) ==
    [op |-> op, ref |-> ref, url |-> url, raised |-> "none", named |-> "",
     cause |-> "none", thrown |-> "none", commit |-> NoCommit,
     infos |-> <<>>, remoteOps |-> <<>>, again |-> FALSE, subs |-> FALSE,
     cmds |-> <<>>, archive |-> <<>>]

Raise(o, raised, named, cause, thrown) ==
    [o EXCEPT !.raised = raised, !.named = named, !.cause = cause,
              !.thrown = thrown]

NoOp == Op("none", "", NoUrl)

MockIdle ==
    /\ procOf = [c \in Callers |-> 1]
    /\ pc = [c \in Callers |-> "idle"]
    /\ fdOpen = [c \in Callers |-> FALSE]
    /\ lockOwner = NoProc

GitIdle ==
    /\ dir = "absent"
    /\ remotes = <<>>
    /\ refdb = NoRefs
    /\ head = NoCommit
    /\ tree = NoCommit
    /\ requested = NoUrl

SvnIdle == svnDir = FALSE

ArchIdle ==
    /\ submodules = <<>>
    /\ files = <<>>

\* Concurrent initialize() calls; the repository is not involved.
MockStart == MockInit /\ GitIdle /\ SvnIdle /\ ArchIdle /\ last = NoOp

SpecMock == MockStart /\ [][MockNext]_vars

\* any(remote.name == name for remote in self.remotes)
HasRemote(rs, name) == \E i \in DOMAIN rs : rs[i].name = name

\* self.remotes[name].url
remote_url(rs, name) == rs[CHOOSE i \in DOMAIN rs : rs[i].name = name].url

\* self.delete_remote(name): 'git remote rm' drops the configuration section
\* and the remote-tracking references of the remote.
delete_remote(g, name) ==
    [remotes |-> SelectSeq(g.remotes, LAMBDA r : r.name # name),
     refdb |-> [n \in RefNames |->
                  IF \E f \in Refs : n = Join(name, f) THEN NoCommit
                  ELSE g.refdb[n]],
     ops |-> Append(g.ops, "delete")]

\* self.create_remote(name, url): 'git remote add' appends a section.
create_remote(g, name, url) ==
    [remotes |-> Append(g.remotes, [name |-> name, url |-> url]),
     refdb |-> g.refdb,
     ops |-> Append(g.ops, "create")]

\* A force_create_remote that keeps an existing remote whatever its URL.
force_create_remote_keeping(g, name, url) ==
    IF HasRemote(g.remotes, name) THEN g ELSE create_remote(g, name, url)

\* A force_create_remote whose create step is the else branch of the test
\* for an existing remote, so that a replaced remote is not created again.
force_create_remote_elif(g, name, url) ==
    IF HasRemote(g.remotes, name)
    THEN IF remote_url(g.remotes, name) # url THEN delete_remote(g, name) ELSE g
    ELSE create_remote(g, name, url)

\* A force_create_remote that replaces the remote without comparing URLs.
force_create_remote_replacing(g, name, url) ==
    create_remote(IF HasRemote(g.remotes, name) THEN delete_remote(g, name)
                  ELSE g, name, url)

\* GitRepository.force_create_remote, on g = [remotes, refdb, ops].
force_create_remote(g, name, url) ==
    LET g1 == IF HasRemote(g.remotes, name)
              THEN IF remote_url(g.remotes, name) # url
                   THEN delete_remote(g, name)
                   ELSE g
              ELSE g
    IN  IF ~HasRemote(g1.remotes, name)
        THEN create_remote(g1, name, url)
        ELSE g1

\* self.commit(name) succeeds, i.e. does not raise gitdb.exc.BadName.
Resolves(db, name) == db[name] # NoCommit

\* refs_names of _get_reference: '<remote>/<ref>' per remote, then '<ref>'.
refs_names(rs, ref_name) ==
    [i \in 1..Len(rs) |-> Join(rs[i].name, ref_name)] \o <<ref_name>>

\* The loop of _get_reference from position i: the first name that resolves
\* is returned; the else branch raises, naming the last name tried.
RECURSIVE try_names(_, _, _)
try_names(db, names, i) ==
    IF i > Len(names)
    THEN [ok |-> FALSE, commit |-> NoCommit, named |-> names[Len(names)]]
    ELSE IF Resolves(db, names[i])
         THEN [ok |-> TRUE, commit |-> db[names[i]], named |-> names[i]]
         ELSE try_names(db, names, i + 1)

\* A _get_reference that gives the local name priority over the remotes.
_get_reference_local_first(rs, db, ref_name) ==
    try_names(db, <<ref_name>> \o
                  [i \in 1..Len(rs) |-> Join(rs[i].name, ref_name)], 1)

\* A _get_reference whose error names the first name tried.
_get_reference_naming_first(rs, db, ref_name) ==
    LET r == try_names(db, refs_names(rs, ref_name), 1)
    IN  IF r.ok THEN r ELSE [r EXCEPT !.named = refs_names(rs, ref_name)[1]]

\* GitRepository._get_reference
_get_reference(rs, db, ref_name) == try_names(db, refs_names(rs, ref_name), 1)

(***************************************************************************)
(* force_create_remote on every remote list                                *)
(***************************************************************************)
RemoteInit ==
    /\ MockIdle
    /\ dir = "valid"
    /\ remotes \in RemoteLists
    /\ refdb = NoRefs
    /\ head = NoCommit /\ tree = NoCommit
    /\ requested = NoUrl
    /\ SvnIdle
    /\ ArchIdle
    /\ last = NoOp

ForceCreateRemoteCall ==
    \E name \in RemoteNames : \E url \in Urls :
        LET g == force_create_remote(
                     [remotes |-> remotes, refdb |-> refdb, ops |-> <<>>],
                     name, url)
        IN  /\ remotes' = g.remotes
            /\ refdb' = g.refdb
            /\ last' = [Op("force_create_remote", name, url)
                           EXCEPT !.remoteOps = g.ops,
                                  !.again = /\ last.op = "force_create_remote"
                                            /\ last.ref = name
                                            /\ last.url = url]
            /\ UNCHANGED <<dir, head, tree, requested>>
            /\ UNCHANGED <<mockVars, svnVars, archVars>>

SpecRemote == RemoteInit /\ [][ForceCreateRemoteCall]_vars

\* C10: a force_create_remote(name, url) that directly follows a call with
\* the same name and url leaves the remote list as it was (same count, names,
\* URLs, order) and performs neither a delete nor a create.
C10_ForceCreateRemoteIdempotent ==
    [][(last'.op = "force_create_remote" /\ last'.again)
       => (remotes' = remotes /\ last'.remoteOps = <<>>)]_vars

\* A second call with the arguments of the call before it has returned, and
\* the remote it names, at the requested URL, sits behind another remote.
C10_Witness ==
    /\ last.op = "force_create_remote"
    /\ last.again
    /\ Len(remotes) >= 2
    /\ remotes[Len(remotes)].name = last.ref
    /\ remotes[Len(remotes)].url = last.url

(***************************************************************************)
(* _get_reference on every remote list and reference database              *)
(***************************************************************************)
ResolveInit ==
    /\ MockIdle
    /\ dir = "valid"
    /\ remotes \in RemoteLists
    /\ refdb \in {db \in [RefNames -> Commits \cup {NoCommit}] :
                    \A r \in RemoteNames : db[Join(r, "topic")] = NoCommit}
    /\ head = NoCommit /\ tree = NoCommit
    /\ requested = NoUrl
    /\ SvnIdle
    /\ ArchIdle
    /\ last = NoOp

GetReferenceCall ==
    \E ref_name \in Refs :
        LET r == _get_reference(remotes, refdb, ref_name)
            o == [Op("_get_reference", ref_name, NoUrl)
                     EXCEPT !.commit = r.commit]
        IN  /\ last' = IF r.ok THEN o
                       ELSE Raise(o, "RepositoryError", r.named, "noref",
                                  "BadName")
            /\ UNCHANGED gitVars
            /\ UNCHANGED <<mockVars, svnVars, archVars>>

SpecResolve == ResolveInit /\ [][GetReferenceCall]_vars

\* '<remote_i>/<ref>' resolves and no earlier remote's name does.
FirstRemoteHit(i, ref) ==
    /\ Resolves(refdb, Join(remotes[i].name, ref))
    /\ \A j \in 1..(i - 1) : ~Resolves(refdb, Join(remotes[j].name, ref))

NoRemoteHit(ref) ==
    \A i \in DOMAIN remotes : ~Resolves(refdb, Join(remotes[i].name, ref))

\* C3: _get_reference returns the commit of the first remote, in enumeration
\* order, whose '<remote>/<ref>' resolves; the bare '<ref>' is used only when
\* no remote-qualified name resolves; it raises when nothing resolves.
C3_ReferencePrecedence ==
    last.op = "_get_reference" =>
        /\ \A i \in DOMAIN remotes :
              FirstRemoteHit(i, last.ref) =>
                  /\ last.raised = "none"
                  /\ last.commit = refdb[Join(remotes[i].name, last.ref)]
        /\ (NoRemoteHit(last.ref) /\ Resolves(refdb, last.ref)) =>
              (last.raised = "none" /\ last.commit = refdb[last.ref])
        /\ (NoRemoteHit(last.ref) /\ ~Resolves(refdb, last.ref)) =>
              last.raised = "RepositoryError"

\* 'origin/<ref>' and bare '<ref>' resolve to different commits, 'origin' is
\* the second of two remotes, and the call returned the commit of 'origin/<ref>'.
C3_Witness ==
    /\ last.op = "_get_reference"
    /\ Len(remotes) = 2
    /\ remotes[2].name = "origin"
    /\ FirstRemoteHit(2, last.ref)
    /\ Resolves(refdb, last.ref)
    /\ refdb[last.ref] # refdb[Join("origin", last.ref)]
    /\ last.commit = refdb[Join("origin", last.ref)]

(***************************************************************************)
(* The public operations on one git working copy and one svn working copy  *)
(***************************************************************************)
MaxPushInfos == 2

\* What remote.push() can return: one flag per PushInfo, TRUE = ERROR bit set.
PushResults == UNION {[1..n -> BOOLEAN] : n \in 0..MaxPushInfos}

\* The git working copy as a record, and an operation's result installed.
Cur ==
    [dir |-> dir, remotes |-> remotes, refdb |-> refdb, head |-> head,
     tree |-> tree, requested |-> requested, out |-> last]

Apply(G) ==
    /\ dir' = G.dir
    /\ remotes' = G.remotes
    /\ refdb' = G.refdb
    /\ head' = G.head
    /\ tree' = G.tree
    /\ requested' = G.requested
    /\ last' = G.out

\* What the environment decides during a clone: whether it succeeds, the
\* commit of the remote's master (if any), whether master is the remote's
\* default branch, and the commit of the default branch otherwise.
CloneEnvs ==
    {e \in [ok : BOOLEAN, master : Commits \cup {NoCommit}, default : BOOLEAN,
            head : Commits] :
        \* choices that cannot matter are fixed
        /\ ~e.ok => (e.master = NoCommit /\ ~e.default /\ e.head = 1)
        /\ (e.default /\ e.master # NoCommit) => e.head = e.master
        /\ e.master = NoCommit => ~e.default}

\* A clone_from that lets the GitCommandError of the clone escape.
clone_from_unwrapped(G, url, env) ==
    LET o == Op("get_git_repository", "", NoUrl)
        isMaster == env.default /\ env.master # NoCommit
        h == IF isMaster THEN env.master ELSE env.head
    IN  IF ~env.ok
        THEN [G EXCEPT !.out = Raise(o, "GitCommandError", "", "clone",
                                     "GitCommandError")]
        ELSE [G EXCEPT
                !.dir = "valid",
                !.remotes = <<[name |-> MAIN_REMOTE_NAME, url |-> url]>>,
                !.refdb = [NoRefs EXCEPT
                             ![Join(MAIN_REMOTE_NAME, "master")] = env.master,
                             !["master"] = IF isMaster THEN env.master
                                           ELSE NoCommit],
                !.head = h,
                !.tree = h,
                !.requested = url,
                !.out = o]

\* GitRepository.clone_from: with or without proxy, a GitCommandError of the
\* clone becomes RepositoryError; a clone leaves remote 'origin', its tracking
\* references, and the default branch checked out.
clone_from(G, url, env) ==
    LET o == Op("get_git_repository", "", NoUrl)
        isMaster == env.default /\ env.master # NoCommit
        h == IF isMaster THEN env.master ELSE env.head
    IN  IF ~env.ok
        THEN [G EXCEPT !.out = Raise(o, "RepositoryError", "", "clone",
                                     "GitCommandError")]
        ELSE [G EXCEPT
                !.dir = "valid",
                !.remotes = <<[name |-> MAIN_REMOTE_NAME, url |-> url]>>,
                !.refdb = [NoRefs EXCEPT
                             ![Join(MAIN_REMOTE_NAME, "master")] = env.master,
                             !["master"] = IF isMaster THEN env.master
                                           ELSE NoCommit],
                !.head = h,
                !.tree = h,
                !.requested = url,
                !.out = o]

\* A get_git_repository that, on reopening, also fetches 'origin' and resets
\* to its master.
get_git_repository_fetching(G, url, env) ==
    LET o == Op("get_git_repository", "", NoUrl)
        g == force_create_remote(
                 [remotes |-> G.remotes, refdb |-> G.refdb, ops |-> <<>>],
                 MAIN_REMOTE_NAME, url)
    IN  CASE G.dir = "invalid" ->
               [G EXCEPT !.out = Raise(o, "InvalidGitRepositoryError",
                                       REPO_PATH, "invalid",
                                       "InvalidGitRepositoryError")]
          [] G.dir = "absent" -> clone_from(G, url, env)
          [] G.dir = "valid" ->
               [G EXCEPT !.remotes = g.remotes,
                         !.refdb = IF env.master = NoCommit THEN g.refdb
                                   ELSE [g.refdb EXCEPT
                                           ![Join(MAIN_REMOTE_NAME, "master")]
                                               = env.master],
                         !.head = IF env.master = NoCommit THEN G.head
                                  ELSE env.master,
                         !.tree = IF env.master = NoCommit THEN G.tree
                                  ELSE env.master,
                         !.requested = url,
                         !.out = o]

\* A get_git_repository that repairs an invalid directory by cloning afresh.
get_git_repository_repairing(G, url, env) ==
    IF G.dir = "valid"
    THEN LET g == force_create_remote(
                      [remotes |-> G.remotes, refdb |-> G.refdb, ops |-> <<>>],
                      MAIN_REMOTE_NAME, url)
         IN  [G EXCEPT !.remotes = g.remotes, !.refdb = g.refdb,
                       !.requested = url,
                       !.out = Op("get_git_repository", "", NoUrl)]
    ELSE clone_from(G, url, env)

\* get_git_repository(remote_repo_url, parent_dir_path, name)
get_git_repository(G, url, env) ==
    LET o == Op("get_git_repository", "", NoUrl)
    IN  CASE G.dir = "invalid" ->
               \* except git.exc.InvalidGitRepositoryError: LOG.error; raise
               [G EXCEPT !.out = Raise(o, "InvalidGitRepositoryError",
                                       REPO_PATH, "invalid",
                                       "InvalidGitRepositoryError")]
          [] G.dir = "absent" ->
               \* except git.exc.NoSuchPathError: clone
               clone_from(G, url, env)
          [] G.dir = "valid" ->
               LET g == force_create_remote(
                            [remotes |-> G.remotes, refdb |-> G.refdb,
                             ops |-> <<>>],
                            MAIN_REMOTE_NAME, url)
               IN  [G EXCEPT !.remotes = g.remotes, !.refdb = g.refdb,
                             !.requested = url,
                             !.out = o]

\* What the environment decides during a checkout: the fetch succeeds or
\* raises GitCommandError, the commit of the remote's master (if any), whether
\* a failing fetch had already updated references, and whether the reset and
\* the submodule update succeed.
CheckoutEnvs ==
    {e \in [fetchOk : BOOLEAN, fetched : Commits \cup {NoCommit},
            partial : BOOLEAN, resetOk : BOOLEAN, subOk : BOOLEAN] :
        \* choices that cannot matter are fixed
        /\ e.fetchOk => ~e.partial
        /\ ~e.fetchOk => (e.resetOk /\ e.subOk)
        /\ (~e.fetchOk /\ ~e.partial) => e.fetched = NoCommit
        /\ ~e.resetOk => e.subOk}

\* main_remote.fetch(): updates the tracking references of 'origin' the
\* remote has; references the remote lacks are kept (no pruning).
Fetched(db, c) ==
    IF c = NoCommit THEN db
    ELSE [db EXCEPT ![Join(MAIN_REMOTE_NAME, "master")] = c]

\* A step of a call, as an entry of the log of the call.
Ran(cmd, ok) == [cmd |-> cmd, ok |-> ok]

\* A second half of checkout that runs the submodule cascade although the
\* reset has failed.
reset_and_update_cascading(G, o, ref_name, env) ==
    IF ~env.resetOk
    THEN [G EXCEPT !.head = o.commit,
                   !.out = Raise([o EXCEPT !.cmds = <<Ran("reset", FALSE),
                                                      Ran("submodule update",
                                                          TRUE)>>,
                                           !.subs = TRUE],
                                 "RepositoryError", ref_name, "reset",
                                 "GitCommandError")]
    ELSE IF ~env.subOk
    THEN [G EXCEPT !.head = o.commit, !.tree = o.commit,
                   !.out = Raise([o EXCEPT !.cmds = <<Ran("reset", TRUE),
                                                      Ran("submodule update",
                                                          FALSE)>>],
                                 "GitCommandError", "", "submodule",
                                 "GitCommandError")]
    ELSE [G EXCEPT !.head = o.commit, !.tree = o.commit,
                   !.out = [o EXCEPT !.cmds = <<Ran("reset", TRUE),
                                                Ran("submodule update", TRUE)>>,
                                     !.subs = TRUE]]

\* checkout from the resolved commit o.commit on: HEAD is set to it, then the
\* index and the working tree are reset, then the submodules are updated.
reset_and_update(G, o, ref_name, env) ==
    IF ~env.resetOk
    THEN \* self.head.reference = commit_id was done; the reset raised
         [G EXCEPT !.head = o.commit,
                   !.out = Raise([o EXCEPT !.cmds = <<Ran("reset", FALSE)>>],
                                 "RepositoryError", ref_name, "reset",
                                 "GitCommandError")]
    ELSE IF ~env.subOk
    THEN \* submodule.update(init=True) raised
         [G EXCEPT !.head = o.commit, !.tree = o.commit,
                   !.out = Raise([o EXCEPT !.cmds = <<Ran("reset", TRUE),
                                                      Ran("submodule update",
                                                          FALSE)>>],
                                 "GitCommandError", "", "submodule",
                                 "GitCommandError")]
    ELSE \* self._update_submodules() ran for every submodule
         [G EXCEPT !.head = o.commit, !.tree = o.commit,
                   !.out = [o EXCEPT !.cmds = <<Ran("reset", TRUE),
                                                Ran("submodule update", TRUE)>>,
                                     !.subs = TRUE]]

\* A fetch failure that is turned into RepositoryError.
fetch_failed_wrapping(G, o, db, env) ==
    [G EXCEPT !.refdb = IF env.partial THEN db ELSE G.refdb,
              !.out = Raise(o, "RepositoryError", "", "fetch",
                            "GitCommandError")]

\* except git.exc.GitCommandError: LOG.error(...); raise
fetch_failed(G, o, db, env) ==
    [G EXCEPT !.refdb = IF env.partial THEN db ELSE G.refdb,
              !.out = Raise(o, "GitCommandError", "", "fetch",
                            "GitCommandError")]

\* GitRepository.checkout(ref_name), with the default refspecs
checkout(G, ref_name, env) ==
    LET o == Op("checkout", ref_name, NoUrl)
        db == Fetched(G.refdb, env.fetched)
        r == _get_reference(G.remotes, db, ref_name)
        oc == [o EXCEPT !.commit = r.commit]
    IN  IF ~HasRemote(G.remotes, MAIN_REMOTE_NAME)
        THEN \* self.remote(MAIN_REMOTE_NAME) raises
             [G EXCEPT !.out = Raise(o, "ValueError", "", "noremote",
                                     "ValueError")]
        ELSE IF ~env.fetchOk
        THEN fetch_failed(G, o, db, env)
        ELSE IF ~r.ok
        THEN \* _get_reference raises RepositoryError
             [G EXCEPT !.refdb = db,
                       !.out = Raise(o, "RepositoryError", r.named, "noref",
                                     "BadName")]
        ELSE reset_and_update([G EXCEPT !.refdb = db], oc, ref_name, env)

\* What the environment decides during a push: the transport raises, or
\* returns a list of PushInfo.
PushEnvs ==
    {e \in [raises : BOOLEAN, infos : PushResults] :
        e.raises => e.infos = <<>>}

\* GitRepository.push_head_commits(remote_repo_url, remote_repo_branch)
push_head_commits(G, url, branch, env) ==
    LET g == force_create_remote(
                 [remotes |-> G.remotes, refdb |-> G.refdb, ops |-> <<>>],
                 REPO_REMOTE_NAME, url)
        o == Op("push_head_commits", branch, NoUrl)
        oi == [o EXCEPT !.infos = env.infos]
        G1 == [G EXCEPT !.remotes = g.remotes, !.refdb = g.refdb]
    IN  IF env.raises
        THEN [G1 EXCEPT !.out = Raise(o, "GitCommandError", "",
                                      "push-transport", "GitCommandError")]
        ELSE IF Len(env.infos) = 0
        THEN \* remote.push(refspec=refspec)[0] on an empty list
             [G1 EXCEPT !.out = Raise(oi, "IndexError", "", "push-empty",
                                      "none")]
        ELSE IF env.infos[1]
        THEN \* git.PushInfo.ERROR & push_info.flags
             [G1 EXCEPT !.out = Raise(oi, "PushError",
                                      Join(REPO_REMOTE_NAME, branch),
                                      "push-flag", "none")]
        ELSE \* the push of HEAD went through: its tracking reference follows
             [G1 EXCEPT !.refdb = [g.refdb EXCEPT
                                     ![Join(REPO_REMOTE_NAME, branch)] = G.head],
                        !.out = oi]

GitInit ==
    /\ dir \in {"absent", "invalid"}
    /\ remotes = <<>>
    /\ refdb = NoRefs
    /\ head = NoCommit
    /\ tree = NoCommit
    /\ requested = NoUrl

GetGitRepository ==
    /\ \E url \in Urls : \E env \in CloneEnvs :
          Apply(get_git_repository(Cur, url, env))
    /\ UNCHANGED <<mockVars, svnVars, archVars>>

Checkout ==
    /\ dir = "valid"
    /\ \E ref_name \in Refs : \E env \in CheckoutEnvs :
          Apply(checkout(Cur, ref_name, env))
    /\ UNCHANGED <<mockVars, svnVars, archVars>>

PushHeadCommits ==
    /\ dir = "valid"
    /\ \E url \in Urls : \E branch \in Branches : \E env \in PushEnvs :
          Apply(push_head_commits(Cur, url, branch, env))
    /\ UNCHANGED <<mockVars, svnVars, archVars>>

\* get_svn_repository(remote_repo_url, repo_path): an existing path is
\* reopened as it is; otherwise SvnRepository.checkout_from checks it out,
\* and any failure of the command becomes RepositoryError.
GetSvnRepository ==
    /\ \E ok \in BOOLEAN :
          LET o == Op("get_svn_repository", "", NoUrl)
          IN  IF svnDir
              THEN /\ ok
                   /\ last' = o
                   /\ UNCHANGED svnDir
              ELSE IF ok
              THEN /\ svnDir' = TRUE
                   /\ last' = o
              ELSE /\ last' = Raise(o, "RepositoryError", "", "svn-clone",
                                    "CommandError")
                   /\ UNCHANGED svnDir
    /\ UNCHANGED <<mockVars, gitVars, archVars>>

\* An SvnRepository.checkout for which a failing 'svn update' is fatal.
svn_checkout_update_fatal(revision, updateOk, checkoutOk) ==
    LET o == [Op("svn_checkout", "", NoUrl) EXCEPT !.commit = revision]
    IN  IF ~updateOk
        THEN Raise([o EXCEPT !.cmds = <<Ran("svn update", FALSE)>>],
                   "RepositoryError", ToString(revision), "svn-update",
                   "CommandError")
        ELSE IF checkoutOk
        THEN [o EXCEPT !.cmds = <<Ran("svn update", TRUE),
                                   Ran("svn checkout", TRUE)>>]
        ELSE Raise([o EXCEPT !.cmds = <<Ran("svn update", TRUE),
                                         Ran("svn checkout", FALSE)>>],
                   "RepositoryError", ToString(revision), "svn-revision",
                   "CommandError")

\* SvnRepository.checkout(revision): the outcome of 'svn update' is only
\* logged; then 'svn checkout url@revision .' runs, and its failure becomes
\* RepositoryError naming the revision.
svn_checkout(revision, updateOk, checkoutOk) ==
    LET o == [Op("svn_checkout", "", NoUrl)
                 EXCEPT !.commit = revision,
                        !.cmds = <<Ran("svn update", updateOk),
                                   Ran("svn checkout", checkoutOk)>>]
    IN  IF checkoutOk THEN o
        ELSE Raise(o, "RepositoryError", ToString(revision), "svn-revision",
                   "CommandError")

\* SvnRepository.checkout(revision) on a handle get_svn_repository returned.
SvnCheckout ==
    /\ svnDir
    /\ \E revision \in Revisions : \E updateOk \in BOOLEAN :
       \E checkoutOk \in BOOLEAN :
          last' = svn_checkout(revision, updateOk, checkoutOk)
    /\ UNCHANGED <<mockVars, gitVars, svnVars, archVars>>

Init ==
    /\ MockIdle
    /\ GitInit
    /\ SvnIdle
    /\ ArchIdle
    /\ last = NoOp

Next ==
    \/ GetGitRepository
    \/ Checkout
    \/ PushHeadCommits
    \/ GetSvnRepository
    \/ SvnCheckout

Spec == Init /\ [][Next]_vars

\* Number of remotes named 'origin'.
MainRemotes == {i \in DOMAIN remotes : remotes[i].name = MAIN_REMOTE_NAME}

\* C2: once a get_git_repository call has succeeded, and through later
\* get_git_repository and push_head_commits calls, the working copy has
\* exactly one remote named 'origin' and its URL is the remote URL of the most
\* recent successful get_git_repository call.
C2_OneOriginAtRequestedUrl ==
    requested # NoUrl =>
        /\ Cardinality(MainRemotes) = 1
        /\ \A i \in MainRemotes : remotes[i].url = requested

\* A reopening call re-pointed 'origin' after a push had added 'push-remote':
\* 'origin' was deleted and created again, so it now comes second.
C2_Witness ==
    /\ last.op = "get_git_repository"
    /\ last.raised = "none"
    /\ Len(remotes) = 2
    /\ remotes[1].name = REPO_REMOTE_NAME
    /\ remotes[2] = [name |-> MAIN_REMOTE_NAME, url |-> requested]

\* Neither a '<remote>/<ref>' nor the bare '<ref>' resolves.
NothingResolves(rs, db, ref) ==
    /\ \A i \in DOMAIN rs : ~Resolves(db, Join(rs[i].name, ref))
    /\ ~Resolves(db, ref)

\* C4: a checkout whose reference does not resolve after the fetch, neither
\* remote-qualified nor bare, raises RepositoryError naming that reference and
\* leaves HEAD, the index and the working tree as they were; no submodule is
\* updated.
C4_UnresolvableCheckoutChangesNothing ==
    [][(/\ last'.op = "checkout"
        /\ last'.cause # "fetch"
        /\ NothingResolves(remotes', refdb', last'.ref))
       => (/\ last'.raised = "RepositoryError"
           /\ last'.named = last'.ref
           /\ head' = head
           /\ tree' = tree
           /\ ~last'.subs)]_vars

\* checkout('master') failed to resolve with two remotes configured.
C4_Witness ==
    /\ last.op = "checkout"
    /\ last.ref = "master"
    /\ last.raised = "RepositoryError"
    /\ last.named = "master"
    /\ Len(remotes) = 2
    /\ NothingResolves(remotes, refdb, "master")
    /\ head # NoCommit

\* C5: push_head_commits raises PushError whenever an entry of the push
\* result carries the error flag, whatever the number of entries.
C5_PushErrorOnAnyErrorFlag ==
    (/\ last.op = "push_head_commits"
     /\ \E i \in DOMAIN last.infos : last.infos[i])
    => last.raised = "PushError"

\* C7 as stated: on an invalid directory get_git_repository raises
\* RepositoryFormatError naming the path and changes nothing.
C7_InvalidDirRaisesFormatError ==
    [][(dir = "invalid" /\ last'.op = "get_git_repository")
       => (/\ last'.raised = "RepositoryFormatError"
           /\ last'.named = REPO_PATH
           /\ UNCHANGED gitVars)]_vars

\* C7, amended: on an invalid directory get_git_repository re-raises git's
\* InvalidGitRepositoryError, which names the path, and changes nothing: no
\* clone, nothing removed, no remote created or changed.
C7_InvalidDirReraisesGitError ==
    [][(dir = "invalid" /\ last'.op = "get_git_repository")
       => (/\ last'.raised = "InvalidGitRepositoryError"
           /\ last'.named = REPO_PATH
           /\ UNCHANGED gitVars)]_vars

\* get_git_repository has failed on an invalid directory.
C7_Witness ==
    /\ dir = "invalid"
    /\ last.op = "get_git_repository"
    /\ last.raised = "InvalidGitRepositoryError"
    /\ remotes = <<>>

C9_FetchFailurePropagatesUnchanged ==
    [][(last'.op = "checkout" /\ last'.cause = "fetch")
       => (/\ last'.raised = last'.thrown
           /\ last'.thrown = "GitCommandError"
           /\ last'.commit = NoCommit
           /\ head' = head
           /\ tree' = tree
           /\ ~last'.subs)]_vars

\* A checkout whose reference would have resolved failed in the fetch.
C9_Witness ==
    /\ last.op = "checkout"
    /\ last.cause = "fetch"
    /\ last.raised = "GitCommandError"
    /\ Resolves(refdb, Join(MAIN_REMOTE_NAME, last.ref))

\* Positions of the remotes called name in the list rs.
Named(rs, name) == {i \in DOMAIN rs : rs[i].name = name}

\* C11: after force_create_remote(name, url), whatever the remote list was,
\* exactly one remote is called name, its URL is url, and the remotes with
\* other names are the same as before, each with the URL it had.
C11_ForceCreateRemoteUpserts ==
    [][last'.op = "force_create_remote"
       => (/\ Cardinality(Named(remotes', last'.ref)) = 1
           /\ \A i \in Named(remotes', last'.ref) : remotes'[i].url = last'.url
           /\ {remotes[i] : i \in DOMAIN remotes \ Named(remotes, last'.ref)}
              = {remotes'[i] : i \in DOMAIN remotes' \ Named(remotes', last'.ref)}
           /\ \A n \in RemoteNames \ {last'.ref} :
                 Cardinality(Named(remotes', n)) = Cardinality(Named(remotes, n)))]_vars

\* A call has replaced a remote that had another URL, next to two others.
C11_Witness ==
    /\ last.op = "force_create_remote"
    /\ last.remoteOps = <<"delete", "create">>
    /\ Len(remotes) = 3
    /\ remotes[3] = [name |-> last.ref, url |-> last.url]

\* The remotes called 'origin', with their URLs.
MainRemoteSet(rs) == {rs[i] : i \in Named(rs, MAIN_REMOTE_NAME)}

\* C12: push_head_commits, whatever its URL and whether it returns or raises,
\* leaves the remote 'origin' in place with the URL it had; the only remote it
\* creates or re-points is 'push-remote'.
C12_PushKeepsMainRemote ==
    [][last'.op = "push_head_commits"
       => (/\ MainRemoteSet(remotes') = MainRemoteSet(remotes)
           /\ Cardinality(Named(remotes', MAIN_REMOTE_NAME)) = 1
           /\ \A i \in DOMAIN remotes' :
                 remotes'[i].name # REPO_REMOTE_NAME => remotes'[i] \in
                     {remotes[j] : j \in DOMAIN remotes})]_vars

\* A push to the very URL of 'origin' has ended in PushError: 'push-remote'
\* stands behind 'origin', both at that URL.
C12_Witness ==
    /\ last.op = "push_head_commits"
    /\ last.raised = "PushError"
    /\ Len(remotes) = 2
    /\ remotes[1].name = MAIN_REMOTE_NAME
    /\ remotes[2] = [name |-> REPO_REMOTE_NAME, url |-> remotes[1].url]

\* Positions in the command log of the last call at which cmd ran.
RanAt(cmd) == {i \in DOMAIN last.cmds : last.cmds[i].cmd = cmd}

\* C13: SvnRepository.checkout runs the revision checkout exactly once, after
\* the update and whatever the update's outcome; the call returns normally
\* exactly when that checkout succeeded, and raises RepositoryError naming the
\* revision exactly when it failed.
C13_SvnUpdateFailureSwallowed ==
    last.op = "svn_checkout" =>
        /\ Cardinality(RanAt("svn checkout")) = 1
        /\ Cardinality(RanAt("svn update")) = 1
        /\ \A i \in RanAt("svn update") : \A j \in RanAt("svn checkout") : i < j
        /\ \A j \in RanAt("svn checkout") :
              /\ last.cmds[j].ok <=> last.raised = "none"
              /\ ~last.cmds[j].ok <=>
                    (last.raised = "RepositoryError"
                     /\ last.named = ToString(last.commit))

\* The update failed, the revision checkout succeeded, the call returned.
C13_Witness ==
    /\ last.op = "svn_checkout"
    /\ \E i \in RanAt("svn update") : ~last.cmds[i].ok
    /\ \E j \in RanAt("svn checkout") : last.cmds[j].ok
    /\ last.raised = "none"

\* C14: get_git_repository on an existing valid working copy only upserts
\* 'origin': HEAD, the index and the working tree stay as they are, no
\* reference receives a commit (nothing is fetched), and no submodule is
\* updated, whether or not the URL of 'origin' changes.
C14_ReopenFetchesNothing ==
    [][(dir = "valid" /\ last'.op = "get_git_repository")
       => (/\ last'.raised = "none"
           /\ dir' = "valid"
           /\ head' = head
           /\ tree' = tree
           /\ \A n \in RefNames : refdb'[n] \in {refdb[n], NoCommit}
           /\ last'.commit = NoCommit
           /\ ~last'.subs)]_vars

\* A reopening call has re-pointed 'origin' (it now comes after
\* 'push-remote') in a working copy whose HEAD and working tree differ.
C14_Witness ==
    /\ last.op = "get_git_repository"
    /\ last.raised = "none"
    /\ Len(remotes) = 2
    /\ remotes[2].name = MAIN_REMOTE_NAME
    /\ head # tree
    /\ refdb[Join(MAIN_REMOTE_NAME, "master")] = NoCommit

\* Positions in the log of the call o at which the step cmd ran.
RanIn(o, cmd) == {i \in DOMAIN o.cmds : o.cmds[i].cmd = cmd}

\* C16: in checkout the submodule cascade starts only after the hard reset to
\* the resolved commit has succeeded; a checkout that returns normally has
\* updated every submodule of the commit it reset to; a failed reset gives
\* RepositoryError and no submodule update.
C16_CascadeAfterReset ==
    [][last'.op = "checkout"
       => (/\ RanIn(last', "submodule update") # {} =>
                 /\ \E i \in RanIn(last', "reset") :
                       /\ last'.cmds[i].ok
                       /\ \A j \in RanIn(last', "submodule update") : i < j
                 /\ tree' = last'.commit
                 /\ head' = last'.commit
           /\ last'.raised = "none" =>
                 /\ last'.subs
                 /\ \A j \in RanIn(last', "submodule update") : last'.cmds[j].ok
                 /\ tree' = last'.commit
                 /\ last'.commit # NoCommit
           /\ (\E i \in RanIn(last', "reset") : ~last'.cmds[i].ok) =>
                 /\ last'.raised = "RepositoryError"
                 /\ RanIn(last', "submodule update") = {}
                 /\ ~last'.subs)]_vars

\* A checkout has moved the working tree to another commit and updated the
\* submodules.
C16_Witness ==
    /\ last.op = "checkout"
    /\ last.raised = "none"
    /\ last.subs
    /\ tree = last.commit
    /\ tree = refdb[Join(MAIN_REMOTE_NAME, last.ref)]
    /\ refdb["master"] # tree
    /\ refdb["master"] # NoCommit

\* C17: a checkout that raises, at whichever step, leaves HEAD at the commit
\* it pointed to before the call.
C17_FailedCheckoutKeepsHead ==
    [][(last'.op = "checkout" /\ last'.raised # "none") => head' = head]_vars

\* C18: a checkout that gets as far as resolving its reference takes the
\* commit of 'origin/<ref>' whenever that name resolves after the fetch, not
\* the commit of another remote's reference nor of the bare name.
C18_CheckoutTakesMainRemoteReference ==
    [][(/\ last'.op = "checkout"
        /\ last'.cause \notin {"fetch", "noremote"}
        /\ Resolves(refdb', Join(MAIN_REMOTE_NAME, last'.ref)))
       => last'.commit = refdb'[Join(MAIN_REMOTE_NAME, last'.ref)]]_vars

(***************************************************************************)
(* GitRepository.archive: names and paths are sequences of characters      *)
(***************************************************************************)
MaxSubmodules == 3

SubmoduleNames == {<<"a", "/", "b">>, <<"a", "_", "b">>, <<"c">>, <<"d">>}
ArchiveNames == {<<"p">>, <<"q">>}

TAR == <<".", "t", "a", "r">>
GZ == <<".", "g", "z">>

\* A submodule's path is where it is checked out; its name is that path
\* unless it was given another one.
Submodule == {[name |-> n, path |-> n] : n \in SubmoduleNames}

\* Submodule lists a repository can declare: names are unique.
SubmoduleLists ==
    {ss \in UNION {[1..n -> Submodule] : n \in 0..MaxSubmodules} :
        \A i \in DOMAIN ss : \A j \in DOMAIN ss : ss[i].name = ss[j].name => i = j}

\* submodule.name.replace("/", "_")
Replace(name) ==
    [i \in 1..Len(name) |-> IF name[i] = "/" THEN "_" ELSE name[i]]

\* os.path.join(build_dir, archive_name + ".tar"), relative to build_dir
archive_file_path(archive_name) == archive_name \o TAR

\* os.path.join(build_dir, "%s-%s.tar" % (archive_name,
\*                                        submodule.name.replace("/", "_")))
submodule_archive_file_path(archive_name, submodule) ==
    archive_name \o <<"-">> \o Replace(submodule.name) \o TAR

\* prefix=archive_name + "/"
MainPrefix(archive_name) == archive_name \o <<"/">>

\* prefix=os.path.join(archive_name, submodule.path) + "/"
SubPrefix(archive_name, submodule) ==
    archive_name \o <<"/">> \o submodule.path \o <<"/">>

\* open(path, "wb") and the write of a tar: the file is created or replaced.
Write(F, path, content) ==
    [p \in DOMAIN F \cup {path} |-> IF p = path THEN content ELSE F[p]]

\* The first loop of archive from submodule i: one tar per submodule.
RECURSIVE write_submodules(_, _, _, _)
write_submodules(F, subs, archive_name, i) ==
    IF i > Len(subs) THEN F
    ELSE write_submodules(
             Write(F, submodule_archive_file_path(archive_name, subs[i]),
                   <<SubPrefix(archive_name, subs[i])>>),
             subs, archive_name, i + 1)

\* submodules_archives_paths after the first loop
submodules_archives_paths(subs, archive_name) ==
    [i \in 1..Len(subs) |-> submodule_archive_file_path(archive_name, subs[i])]

\* The second loop of archive from path i, of which the first n commands
\* succeed: 'tar --concatenate --file main path' appends the members the
\* file at path holds at that time.
RECURSIVE concatenate(_, _, _, _, _)
concatenate(F, main, paths, i, n) ==
    IF i > Len(paths) \/ i > n THEN F
    ELSE concatenate(Write(F, main, F[main] \o F[paths[i]]),
                     main, paths, i + 1, n)

\* 'gzip --fast main': main is replaced by main.gz (over an older main.gz
\* when gzip is allowed to, otherwise the command fails).
gzip(F, main) ==
    [p \in (DOMAIN F \ {main}) \cup {main \o GZ} |->
        IF p = main \o GZ THEN F[main] ELSE F[p]]

\* GitRepository.archive(archive_name, build_dir) on the build_dir F, where
\* the first okCmds calls of utils.run_command succeed and the next one
\* raises (the tar commands of the second loop, then gzip).
archive(F, subs, archive_name, okCmds) ==
    LET main == archive_file_path(archive_name)
        F1 == Write(F, main, <<MainPrefix(archive_name)>>)
        F2 == write_submodules(F1, subs, archive_name, 1)
        F3 == concatenate(F2, main,
                          submodules_archives_paths(subs, archive_name),
                          1, okCmds)
        o == [Op("archive", "", NoUrl) EXCEPT !.archive = archive_name]
    IN  IF okCmds > Len(subs)
        THEN [files |-> gzip(F3, main), out |-> o]
        ELSE [files |-> F3,
              out |-> Raise(o, "CommandError", "",
                            IF okCmds < Len(subs) THEN "tar" ELSE "gzip",
                            "CommandError")]

ArchiveInit ==
    /\ MockIdle
    /\ dir = "valid"
    /\ remotes = <<>>
    /\ refdb = NoRefs
    /\ head = NoCommit /\ tree = NoCommit
    /\ requested = NoUrl
    /\ SvnIdle
    /\ submodules \in SubmoduleLists
    /\ files = <<>>
    /\ last = NoOp

Archive ==
    \E archive_name \in ArchiveNames : \E okCmds \in 0..(Len(submodules) + 1) :
        LET r == archive(files, submodules, archive_name, okCmds)
        IN  /\ files' = r.files
            /\ last' = r.out
            /\ UNCHANGED submodules
            /\ UNCHANGED <<mockVars, gitVars, svnVars>>

SpecArchive == ArchiveInit /\ [][Archive]_vars

\* C15: the artifact archive returns holds, under the top-level directory
\* archive_name, the main tree followed by the content of every declared
\* submodule under '<archive_name>/<submodule_path>/', in enumeration order.
C15_ArchiveHoldsEverySubmodule ==
    (last.op = "archive" /\ last.raised = "none") =>
        /\ archive_file_path(last.archive) \o GZ \in DOMAIN files
        /\ files[archive_file_path(last.archive) \o GZ]
           = <<MainPrefix(last.archive)>>
             \o [i \in 1..Len(submodules) |-> SubPrefix(last.archive, submodules[i])]

\* C19: after archive, two submodules with different names have different
\* intermediate tar files, and each intermediate file holds the tar of its
\* own submodule (it was not overwritten before it was appended).
C19_DistinctIntermediateFiles ==
    last.op = "archive" =>
        /\ \A i \in DOMAIN submodules : \A j \in DOMAIN submodules :
              i # j => submodule_archive_file_path(last.archive, submodules[i])
                       # submodule_archive_file_path(last.archive, submodules[j])
        /\ \A i \in DOMAIN submodules :
              files[submodule_archive_file_path(last.archive, submodules[i])]
              = <<SubPrefix(last.archive, submodules[i])>>

Errors ==
    {"none", "InvalidGitRepositoryError", "RepositoryError", "GitCommandError",
     "PushError", "IndexError", "ValueError", "CommandError"}

TypeOK ==
    /\ dir \in {"absent", "invalid", "valid"}
    /\ remotes \in RemoteLists
    /\ refdb \in [RefNames -> Commits \cup {NoCommit}]
    /\ head \in Commits \cup {NoCommit}
    /\ tree \in Commits \cup {NoCommit}
    /\ requested \in Urls \cup {NoUrl}
    /\ svnDir \in BOOLEAN
    /\ \A i \in DOMAIN submodules : submodules[i].name \in SubmoduleNames
    /\ \A p \in DOMAIN files : files[p] # <<>>
    /\ last.raised \in Errors

====
